---- MODULE Spec2Model ----
(***************************************************************************)
(* Model of ffmpegthumbnailer-rs: the ThumbnailerBuilder configuration      *)
(* (src/src/thumbnailer.rs:135-225), the Thumbnailer pipeline               *)
(* (src/src/thumbnailer.rs:16-133) and the OutputContainer                  *)
(* (src/src/lib.rs:27-46).  The decoder backend, the film strip filter and  *)
(* the VideoFrame live in modules that are not part of the sources at hand  *)
(* (movie_decoder, film_strip, video_frame, error); they are modelled from  *)
(* the contract of spec.md section 4.1 / 4.3.                               *)
(***************************************************************************)
EXTENDS Integers, Naturals, Sequences, FiniteSets, TLC

(***************************************************************************)
(* Bounds of the model.                                                    *)
(***************************************************************************)
\* input files last 0..MaxDuration seconds, or LongDuration seconds
MaxDuration == 1
\* edge length passed to the size and width_and_height setters
MaxEdge == 4

(***************************************************************************)
(* f32 arithmetic.  A finite f32 is num / 2^exp (exp >= 0), NaN is its own  *)
(* value.  Every number below keeps the 24 bit significand of an f32, so    *)
(* that conversions and products round as the hardware does.                *)
(***************************************************************************)
\* significand width of f32 (the type of seek_percentage and quality)
F32_MANTISSA == 24
\* limb width used to multiply two significands without leaving 32 bits
LIMB == (F32_MANTISSA + 2) \div 2

RECURSIVE Pow2(_)
Pow2(n) == IF n <= 0 THEN 1 ELSE 2 * Pow2(n - 1)

RECURSIVE BitLen(_)
BitLen(n) == IF n <= 0 THEN 0 ELSE 1 + BitLen(n \div 2)

\* every integer up to here is an f32; beyond, only some are
F32_EXACT == Pow2(F32_MANTISSA)

\* the value of an Option that is Some
The(S) == CHOOSE x \in S : TRUE

F32(n, e) == [nan |-> FALSE, num |-> n, exp |-> e]
NaN == [nan |-> TRUE, num |-> 0, exp |-> 0]
Abs(n) == IF n < 0 THEN -n ELSE n

\* a <= b on f32 (IEEE: every comparison with NaN is false)
F32Le(a, b) ==
    /\ ~a.nan
    /\ ~b.nan
    /\ LET e == IF a.exp > b.exp THEN a.exp ELSE b.exp
       IN  a.num * Pow2(e - a.exp) <= b.num * Pow2(e - b.exp)

\* (lo..=hi).contains(&x) of core::ops::RangeInclusive
RangeContains(lo, hi, x) == F32Le(lo, x) /\ F32Le(x, hi)

\* round to nearest, ties to even, of kept + rem / 2^s
RoundEven(kept, cmpHalf) ==
    IF cmpHalf > 0 \/ (cmpHalf = 0 /\ kept % 2 = 1) THEN kept + 1 ELSE kept

\* `n as f32` for a u64 n: the nearest f32, ties to even
U64ToF32(n) ==
    LET s    == IF BitLen(n) > F32_MANTISSA THEN BitLen(n) - F32_MANTISSA ELSE 0
        kept == n \div Pow2(s)
        rem  == n % Pow2(s)
        cmp  == IF s = 0 THEN -1 ELSE rem - Pow2(s - 1)
    IN  F32(RoundEven(kept, cmp) * Pow2(s), 0)

\* the exact product a * b of two naturals below 2^(2*LIMB), as hi * 2^(2*LIMB) + lo
MulWide(a, b) ==
    LET B    == Pow2(LIMB)
        a1   == a \div B
        a0   == a % B
        b1   == b \div B
        b0   == b % B
        mid  == a1 * b0 + a0 * b1
        losum == (mid % B) * B + a0 * b0
    IN  [hi |-> a1 * b1 + mid \div B + losum \div (B * B), lo |-> losum % (B * B)]

\* a * b on f32: the exact product rounded to 24 bits, ties to even
F32Mul(a, b) ==
    IF a.nan \/ b.nan THEN NaN
    ELSE
    LET W    == 2 * LIMB
        p    == MulWide(Abs(a.num), Abs(b.num))
        sign == IF (a.num < 0) # (b.num < 0) THEN -1 ELSE 1
        E    == a.exp + b.exp
        L    == IF p.hi = 0 THEN BitLen(p.lo) ELSE W + BitLen(p.hi)
        s    == IF L > F32_MANTISSA THEN L - F32_MANTISSA ELSE 0
        kept == IF s = 0 THEN p.lo
                ELSE IF s <= W THEN p.hi * Pow2(W - s) + p.lo \div Pow2(s)
                ELSE p.hi \div Pow2(s - W)
        cmp  == IF s = 0 THEN -1
                ELSE IF s <= W THEN (p.lo % Pow2(s)) - Pow2(s - 1)
                ELSE LET rh == p.hi % Pow2(s - W)
                         hh == Pow2(s - W - 1)
                     IN  IF rh # hh THEN rh - hh ELSE IF p.lo > 0 THEN 1 ELSE 0
        r    == RoundEven(kept, cmp)
    IN  IF s >= E THEN F32(sign * r * Pow2(s - E), 0) ELSE F32(sign * r, E - s)

\* f32::round: the nearest integer, ties away from zero
F32Round(x) ==
    IF x.nan THEN NaN
    ELSE IF x.exp = 0 THEN x
    ELSE IF x.exp > F32_MANTISSA + 1 THEN F32(0, 0)
    ELSE LET m == (Abs(x.num) + Pow2(x.exp - 1)) \div Pow2(x.exp)
         IN  F32(IF x.num < 0 THEN -m ELSE m, 0)

\* `x as i64` for an integral f32 (NaN casts to 0)
F32ToI64(x) == IF x.nan THEN 0 ELSE x.num \div Pow2(x.exp)

(***************************************************************************)
(* ThumbnailSize and the builder configuration.                            *)
(***************************************************************************)
Size(n) == [kind |-> "Size", width |-> n, height |-> n]
Dimensions(w, h) == [kind |-> "Dimensions", width |-> w, height |-> h]

\* the defaults of ThumbnailerBuilder::default
DEFAULT_SIZE == 128
DEFAULT_QUALITY == 80
\* 0.1f32 is 13421773 / 2^27
DEFAULT_SEEK_NUM == 13421773
DEFAULT_SEEK_EXP == 27

Default ==
    [ maintain_aspect_ratio    |-> TRUE,
      size                     |-> Size(DEFAULT_SIZE),
      seek_percentage          |-> F32(DEFAULT_SEEK_NUM, DEFAULT_SEEK_EXP),
      quality                  |-> F32(DEFAULT_QUALITY, 0),
      prefer_embedded_metadata |-> TRUE,
      with_film_strip          |-> TRUE ]

\* ThumbnailerBuilder::new
new == Default

\* ThumbnailerError values: the variant, the call that raised it and its payload
Error(kind, from) == [kind |-> kind, from |-> from, ext |-> <<>>, value |-> F32(0, 0)]
InvalidSeekPercentage(v) ==
    [kind |-> "InvalidSeekPercentage", from |-> "seek_percentage", ext |-> <<>>, value |-> v]
InvalidQuality(v) ==
    [kind |-> "InvalidQuality", from |-> "quality", ext |-> <<>>, value |-> v]
UnsupportedExtension(e) ==
    [kind |-> "UnsupportedExtension", from |-> "process", ext |-> e, value |-> F32(0, 0)]

\* Result<ThumbnailerBuilder, ThumbnailerError>: exactly one of the two is there
BuilderOk(b) == [ok |-> {b}, err |-> {}]
BuilderErr(e) == [ok |-> {}, err |-> {e}]

\* the range tests of the two fallible setters
SeekPercentageInRange(v) == RangeContains(F32(0, 0), F32(1, 0), v)
QualityInRange(v) == RangeContains(F32(0, 0), F32(100, 0), v)

maintain_aspect_ratio(self, v) == [self EXCEPT !.maintain_aspect_ratio = v]
\* size putting the aspect ratio flag back to its default
size_resetting_aspect_ratio(self, n) ==
    [self EXCEPT !.size = Size(n), !.maintain_aspect_ratio = Default.maintain_aspect_ratio]
size(self, n) == [self EXCEPT !.size = Size(n)]
width_and_height(self, w, h) == [self EXCEPT !.size = Dimensions(w, h)]
\* seek_percentage testing `v < 0.0 || v > 1.0`, which NaN passes
seek_percentage_by_comparison(self, v) ==
    IF ~v.nan /\ ~SeekPercentageInRange(v)
    THEN BuilderErr(InvalidSeekPercentage(v))
    ELSE BuilderOk([self EXCEPT !.seek_percentage = v])
seek_percentage(self, v) ==
    IF ~SeekPercentageInRange(v)
    THEN BuilderErr(InvalidSeekPercentage(v))
    ELSE BuilderOk([self EXCEPT !.seek_percentage = v])
\* quality with the upper bound of the range forgotten
quality_without_upper_bound(self, v) ==
    IF ~F32Le(F32(0, 0), v)
    THEN BuilderErr(InvalidQuality(v))
    ELSE BuilderOk([self EXCEPT !.quality = v])
quality(self, v) ==
    IF ~QualityInRange(v)
    THEN BuilderErr(InvalidQuality(v))
    ELSE BuilderOk([self EXCEPT !.quality = v])
prefer_embedded_metadata(self, v) == [self EXCEPT !.prefer_embedded_metadata = v]
with_film_strip(self, v) == [self EXCEPT !.with_film_strip = v]
build(self) == [builder |-> self]

(***************************************************************************)
(* Arguments the callers pass to the setters.                              *)
(***************************************************************************)
SeekArgs == {F32(-1, 1), F32(0, 0), F32(1, 0), F32(3, 1), NaN}
QualityArgs == {F32(-1, 1), F32(0, 0), F32(100, 0), F32(201, 1), NaN}
SizeArgs == {0, MaxEdge}
DimensionArgs == {<<MaxEdge, 1>>}

(***************************************************************************)
(* Input files and output paths.  A file is what the decoder backend will  *)
(* find in it: the step that fails on it (if any), whether it carries an    *)
(* embedded cover image, its duration in whole seconds and the size of its  *)
(* decoded frames.                                                          *)
(***************************************************************************)
LongDuration == F32_EXACT + 3
Durations == (0..MaxDuration) \cup {LongDuration}
Faults == {"none", "open", "decode", "seek", "scale"}
VideoFiles ==
    [ fault : Faults, cover : BOOLEAN, duration : Durations,
      width : {2 * MaxEdge}, height : {MaxEdge + 2} ]

\* Path::extension of the output path: no extension, or a string of characters
OutputPaths ==
    { {}, {<<"w", "e", "b", "p">>}, {<<"W", "e", "b", "P">>}, {<<"P", "N", "G">>},
      {<<"g", "i", "f">>} }
OutputFormats == {"Webp", "Png"}

UpperCase == <<"A", "B", "C", "D", "E", "F", "G", "H", "I", "J", "K", "L", "M",
               "N", "O", "P", "Q", "R", "S", "T", "U", "V", "W", "X", "Y", "Z">>
LowerCase == <<"a", "b", "c", "d", "e", "f", "g", "h", "i", "j", "k", "l", "m",
               "n", "o", "p", "q", "r", "s", "t", "u", "v", "w", "x", "y", "z">>
ToAsciiLowercase(c) ==
    IF \E i \in 1..Len(UpperCase) : UpperCase[i] = c
    THEN LowerCase[CHOOSE i \in 1..Len(UpperCase) : UpperCase[i] = c]
    ELSE c
\* OsStr::eq_ignore_ascii_case
eq_ignore_ascii_case(a, b) ==
    /\ Len(a) = Len(b)
    /\ \A i \in 1..Len(a) : ToAsciiLowercase(a[i]) = ToAsciiLowercase(b[i])

EMPTY_SENTINEL == <<"<", "e", "m", "p", "t", "y", ">">>

\* InferFormat comparing the extension as it is spelled
InferFormatCaseSensitive(extension) ==
    IF extension = {} THEN [format |-> {}, err |-> {UnsupportedExtension(EMPTY_SENTINEL)}]
    ELSE IF The(extension) = <<"w", "e", "b", "p">>
    THEN [format |-> {"Webp"}, err |-> {}]
    ELSE IF The(extension) = <<"p", "n", "g">>
    THEN [format |-> {"Png"}, err |-> {}]
    ELSE [format |-> {}, err |-> {UnsupportedExtension(The(extension))}]

\* InferFormat with the unknown extensions falling through to WebP
InferFormatDefaultingToWebp(extension) ==
    IF extension = {} THEN [format |-> {}, err |-> {UnsupportedExtension(EMPTY_SENTINEL)}]
    ELSE IF eq_ignore_ascii_case(The(extension), <<"p", "n", "g">>)
    THEN [format |-> {"Png"}, err |-> {}]
    ELSE [format |-> {"Webp"}, err |-> {}]

\* the match on the extension in Thumbnailer::process
InferFormat(extension) ==
    IF extension = {} THEN [format |-> {}, err |-> {UnsupportedExtension(EMPTY_SENTINEL)}]
    ELSE LET ext == CHOOSE e \in extension : TRUE
         IN  IF eq_ignore_ascii_case(ext, <<"w", "e", "b", "p">>)
             THEN [format |-> {"Webp"}, err |-> {}]
             ELSE IF eq_ignore_ascii_case(ext, <<"p", "n", "g">>)
             THEN [format |-> {"Png"}, err |-> {}]
             ELSE [format |-> {}, err |-> {UnsupportedExtension(ext)}]

(***************************************************************************)
(* The decoder backend (movie_decoder.rs), the VideoFrame (video_frame.rs)  *)
(* and the film strip filter (film_strip.rs), after spec.md 4.1 and 4.3.    *)
(***************************************************************************)
EmptyData == [len |-> 0, embedded |-> FALSE, pos |-> 0, strip |-> FALSE]
\* VideoFrame::default
VideoFrameDefault ==
    [width |-> 0, height |-> 0, source_width |-> 0, source_height |-> 0, data |-> EmptyData]

\* MovieDecoder::new(path, prefer_embedded_metadata)
MovieDecoderNew(file, prefer) ==
    IF file.fault = "open"
    THEN [ok |-> {}, err |-> {Error("OpenFailed", "MovieDecoder::new")}]
    ELSE [ok |-> {[file |-> file, use_embedded_data |-> prefer /\ file.cover,
                   primed |-> FALSE, pos |-> 0]},
          err |-> {}]

decode_video_frame(d) ==
    IF d.file.fault = "decode"
    THEN [ok |-> {}, err |-> {Error("DecodeFailed", "decode_video_frame")}]
    ELSE [ok |-> {[d EXCEPT !.primed = TRUE]}, err |-> {}]

embedded_metadata_is_available(d) == d.use_embedded_data

\* Duration::as_secs of get_video_duration
get_video_duration(d) == d.file.duration

\* fails when the container cannot seek or the target lies beyond the stream
seek(d, target) ==
    IF d.file.fault = "seek" \/ target > d.file.duration \/ target < 0
    THEN [ok |-> {}, err |-> {Error("SeekFailed", "seek")}]
    ELSE [ok |-> {[d EXCEPT !.pos = target]}, err |-> {}]

\* a * b / c rounded to the nearest integer
RoundDiv(a, b, c) == (2 * a * b + c) \div (2 * c)

\* the scaling policy: the dimensions of the scaled frame
ScaledDimensions(sz, keep, sw, sh) ==
    IF ~keep THEN <<sz.width, sz.height>>
    ELSE IF sz.kind = "Size"
    THEN IF sw >= sh THEN <<sz.width, RoundDiv(sz.width, sh, sw)>>
                     ELSE <<RoundDiv(sz.height, sw, sh), sz.height>>
    ELSE IF sz.width * sh <= sz.height * sw
    THEN <<sz.width, RoundDiv(sz.width, sh, sw)>>
    ELSE <<RoundDiv(sz.height, sw, sh), sz.height>>

get_scaled_video_frame(d, sz, keep, frame) ==
    IF d.file.fault = "scale"
    THEN [ok |-> {}, err |-> {Error("DecodeFailed", "get_scaled_video_frame")}]
    ELSE LET wh == ScaledDimensions(sz, keep, d.file.width, d.file.height)
         IN  [ok |-> {[width |-> wh[1], height |-> wh[2],
                       source_width |-> d.file.width, source_height |-> d.file.height,
                       data |-> [len |-> wh[1] * wh[2] * 3,
                                 embedded |-> d.use_embedded_data,
                                 pos |-> d.pos, strip |-> FALSE]]},
              err |-> {}]

\* overlays the border in place; the dimensions stay
film_strip_filter(frame) == [frame EXCEPT !.data.strip = TRUE]

(***************************************************************************)
(* The encoders (crates webp and png) and the OutputContainer.             *)
(***************************************************************************)
\* Result of a pipeline step, of a blocking unit or of a public operation:
\* an error, or a frame, or a container, or () when all three are empty
Ok == [err |-> {}, frame |-> {}, out |-> {}]
Err(e) == [err |-> {e}, frame |-> {}, out |-> {}]
OkFrame(f) == [err |-> {}, frame |-> {f}, out |-> {}]
OkContainer(c) == [err |-> {}, frame |-> {}, out |-> {c}]
\* the JoinError of a blocking unit that panicked in `from`, as a ThumbnailerError
JoinError(from) == Error("JoinError", from)
\* the `?` on the frame in process_to_bytes and on the container in process
\* the `?` left out: an Err is taken for an Ok
FrameFailedDropped(r) == FALSE
\* the join taking a JoinError for a unit that went well
FrameFailedUnlessJoinError(r) == \E e \in r.err : e.kind # "JoinError"
FrameFailed(r) == r.err # {}
\* the `?` left out: the write goes ahead whatever process_to_bytes returned
BytesFailedDropped(r) == FALSE
BytesFailed(r) == r.err # {}

\* webp::Encoder::from_rgb(data, width, height).encode(quality).deref().to_vec()
WebpBytes(frame, q) ==
    [format |-> "webp", data |-> frame.data, width |-> frame.width,
     height |-> frame.height, lossy |-> {q}]
\* png::Encoder with ColorType::Rgb and BitDepth::Eight
PngBytes(frame) ==
    [format |-> "png", data |-> frame.data, width |-> frame.width,
     height |-> frame.height, lossy |-> {}]
\* neither encoder takes a picture without pixels
Encodable(frame) == frame.width > 0 /\ frame.height > 0

\* OutputContainer::from taking the source dimensions from the scaled ones
OutputContainerFromScaled(frame, bytes) ==
    [ width         |-> frame.width,
      height        |-> frame.height,
      source_width  |-> frame.width,
      source_height |-> frame.height,
      bytes         |-> bytes ]

\* OutputContainer::from
OutputContainerFrom(frame, bytes) ==
    [ width         |-> frame.width,
      height        |-> frame.height,
      source_width  |-> frame.source_width,
      source_height |-> frame.source_height,
      bytes         |-> bytes ]

(***************************************************************************)
(* The pipeline of Thumbnailer.                                            *)
(***************************************************************************)
\* the argument of decoder.seek in process_to_video_frame
SeekTarget(secs, percentage) == F32ToI64(F32Round(F32Mul(U64ToF32(secs), percentage)))

\* NeedsSeek asking the container instead of the decoder
NeedsSeekByContainer(d) == ~d.file.cover
\* the test that guards the seek
NeedsSeek(d) == ~embedded_metadata_is_available(d)

\* the filter applied whatever the configuration says
TakesFilmStripAlways(strip) == TRUE
\* the test that guards the film strip filter
TakesFilmStrip(strip) == strip

Tasks == {"t1", "t2"}
\* the tasks that run in the sequential specification
SeqTasks == {"t1"}

VARIABLES
    builder,       \* the caller's ThumbnailerBuilder; {} once moved away
    setter_err,    \* the Err the last builder call returned, if it returned one
    thumbnailer,   \* the Thumbnailer build() returned; {} before
    pc,            \* pc[t]: where invocation t stands
    args,          \* args[t]: entry point, input file, output path, format, helper
    decoder,       \* decoder[t]: the MovieDecoder of t's blocking unit
    video_frame,   \* video_frame[t]: the VideoFrame t owns
    unit_ret,      \* unit_ret[t]: what t's finished blocking unit hands to the join
    ret,           \* ret[t]: what the public operation returned to its caller
    calls,         \* calls[t]: the collaborator calls t issued so far, in order
    output_file,   \* output_file[t]: the content of t's output path
    cancelled,     \* <<t, step>>: the future of t was dropped with its unit at step
    last_call      \* the last builder call: its name, argument and receiver

vars == <<builder, setter_err, thumbnailer, pc, args, decoder, video_frame,
          unit_ret, ret, calls, output_file, cancelled, last_call>>
builderVars == <<builder, setter_err, thumbnailer, last_call>>
taskVars == <<pc, args, decoder, video_frame, unit_ret, ret, calls, output_file,
              cancelled>>

\* `helper` is the helper function of lib.rs the invocation came through, if any
NoArgs == [entry |-> "none", file |-> {}, path |-> {}, format |-> {}, helper |-> {}]
\* a call of a helper function: its name, its size and its quality (if it takes one)
Helper(name, n, q) == [name |-> name, size |-> n, quality |-> q]
\* a collaborator call: its name, its integer argument, whether it succeeded and
\* the frame it took or produced
Call(op, arg, ok) == [op |-> op, arg |-> arg, ok |-> ok, frame |-> {}]
FrameCall(op, ok, frames) == [op |-> op, arg |-> 0, ok |-> ok, frame |-> frames]
\* a builder call: `cloned` tells whether the caller passed a clone of `self`
BuilderCall(op, value, cloned, self) ==
    [op |-> op, value |-> value, cloned |-> cloned, self |-> self]

Init ==
    /\ builder = {new}
    /\ setter_err = {}
    /\ thumbnailer = {}
    /\ pc = [t \in Tasks |-> "idle"]
    /\ args = [t \in Tasks |-> NoArgs]
    /\ decoder = [t \in Tasks |-> {}]
    /\ video_frame = [t \in Tasks |-> {}]
    /\ unit_ret = [t \in Tasks |-> {}]
    /\ ret = [t \in Tasks |-> {}]
    /\ calls = [t \in Tasks |-> <<>>]
    /\ output_file = [t \in Tasks |-> {}]
    /\ cancelled = {}
    /\ last_call = BuilderCall("new", NaN, FALSE, {})

(***************************************************************************)
(* Builder calls.  Every setter takes the builder by value: the caller     *)
(* either moves its builder into the call or passes a clone and keeps its   *)
(* own (ThumbnailerBuilder is Clone).                                       *)
(***************************************************************************)
\* an infallible setter `op` returned `b`
Rebind(op, b) ==
    /\ builder' = {b}
    /\ setter_err' = {}
    /\ last_call' = BuilderCall(op, NaN, FALSE, builder)
    /\ UNCHANGED <<thumbnailer, taskVars>>

\* the fallible setter `op` returned `r` for `v`; on Err a builder that was moved
\* into the call is gone, one that was cloned for the call is still the caller's
RebindResult(op, v, r, cloned) ==
    /\ builder' = IF r.err = {} THEN r.ok ELSE IF cloned THEN builder ELSE {}
    /\ setter_err' = r.err
    /\ last_call' = BuilderCall(op, v, cloned, builder)
    /\ UNCHANGED <<thumbnailer, taskVars>>

CallMaintainAspectRatio ==
    /\ builder # {}
    /\ \E v \in BOOLEAN : Rebind("maintain_aspect_ratio", maintain_aspect_ratio(The(builder), v))

CallSize ==
    /\ builder # {}
    /\ \E n \in SizeArgs : Rebind("size", size(The(builder), n))

CallWidthAndHeight ==
    /\ builder # {}
    /\ \E wh \in DimensionArgs : Rebind("width_and_height", width_and_height(The(builder), wh[1], wh[2]))

CallSeekPercentage ==
    /\ builder # {}
    /\ \E v \in SeekArgs, cloned \in BOOLEAN :
          RebindResult("seek_percentage", v, seek_percentage(The(builder), v), cloned)

CallQuality ==
    /\ builder # {}
    /\ \E v \in QualityArgs, cloned \in BOOLEAN :
          RebindResult("quality", v, quality(The(builder), v), cloned)

CallPreferEmbeddedMetadata ==
    /\ builder # {}
    /\ \E v \in BOOLEAN : Rebind("prefer_embedded_metadata", prefer_embedded_metadata(The(builder), v))

CallWithFilmStrip ==
    /\ builder # {}
    /\ \E v \in BOOLEAN : Rebind("with_film_strip", with_film_strip(The(builder), v))

CallBuild ==
    /\ builder # {}
    /\ thumbnailer = {}
    /\ thumbnailer' = {build(The(builder))}
    /\ builder' = {}
    /\ setter_err' = {}
    /\ last_call' = BuilderCall("build", NaN, FALSE, builder)
    /\ UNCHANGED taskVars

(***************************************************************************)
(* Invocations.  One action per step of the async functions: the entry up  *)
(* to the first spawn_blocking, each collaborator call of the blocking     *)
(* closure, the two joins and the file write.                              *)
(***************************************************************************)
Config == The(thumbnailer).builder

\* the caller of t dropped the future it was awaiting
Dropped(t) == \E c \in cancelled : c[1] = t

Log(t, entries) == calls' = [calls EXCEPT ![t] = calls[t] \o entries]

\* the blocking unit of t ends with result r: its decoder is dropped
UnitEnds(t, r, done) ==
    /\ unit_ret' = [unit_ret EXCEPT ![t] = {r}]
    /\ decoder' = [decoder EXCEPT ![t] = {}]
    /\ pc' = [pc EXCEPT ![t] = done]

\* the public operation of t returns r to its caller
Returns(t, r) ==
    /\ ret' = [ret EXCEPT ![t] = {r}]
    /\ pc' = [pc EXCEPT ![t] = "done"]

\* Thumbnailer::process, up to the spawn of the decode unit
process(t, video_file_path, output_thumbnail_path) ==
    /\ thumbnailer # {}
    /\ pc[t] = "idle"
    /\ LET inferred == InferFormat(output_thumbnail_path)
       IN  /\ args' = [args EXCEPT ![t] =
                          [entry |-> "process", file |-> {video_file_path},
                           path |-> output_thumbnail_path, format |-> inferred.format,
                           helper |-> {}]]
           /\ IF inferred.err # {}
              THEN Returns(t, Err(The(inferred.err)))
              ELSE /\ pc' = [pc EXCEPT ![t] = "open"]
                   /\ UNCHANGED ret
    /\ UNCHANGED <<builderVars, cancelled, decoder, video_frame, unit_ret, calls, output_file>>

\* Thumbnailer::process_to_bytes, up to the spawn of the decode unit
process_to_bytes(t, video_file_path, output_format) ==
    /\ thumbnailer # {}
    /\ pc[t] = "idle"
    /\ args' = [args EXCEPT ![t] =
                   [entry |-> "process_to_bytes", file |-> {video_file_path},
                    path |-> {}, format |-> {output_format}, helper |-> {}]]
    /\ pc' = [pc EXCEPT ![t] = "open"]
    /\ UNCHANGED <<builderVars, cancelled, decoder, video_frame, unit_ret, ret, calls, output_file>>

\* Thumbnailer::process_to_video_frame, up to the spawn of the decode unit
process_to_video_frame(t, video_file_path) ==
    /\ thumbnailer # {}
    /\ pc[t] = "idle"
    /\ args' = [args EXCEPT ![t] =
                   [entry |-> "process_to_video_frame", file |-> {video_file_path},
                    path |-> {}, format |-> {}, helper |-> {}]]
    /\ pc' = [pc EXCEPT ![t] = "open"]
    /\ UNCHANGED <<builderVars, cancelled, decoder, video_frame, unit_ret, ret, calls, output_file>>

\* the unit taking over a session another invocation has open instead of
\* opening its own
UnitOpenReusingSession(t) ==
    /\ pc[t] = "open"
    /\ LET r    == MovieDecoderNew(The(args[t].file), Config.prefer_embedded_metadata)
           open == UNION {decoder[u] : u \in Tasks \ {t}}
       IN  IF open # {}
           THEN /\ decoder' = [decoder EXCEPT ![t] = {The(open)}]
                /\ pc' = [pc EXCEPT ![t] = "decode"]
                /\ UNCHANGED <<calls, unit_ret>>
           ELSE /\ Log(t, <<Call("MovieDecoder::new", 0, r.err = {})>>)
                /\ IF r.err # {}
                   THEN UnitEnds(t, Err(The(r.err)), "join_frame")
                   ELSE /\ decoder' = [decoder EXCEPT ![t] = r.ok]
                        /\ pc' = [pc EXCEPT ![t] = "decode"]
                        /\ UNCHANGED unit_ret
    /\ UNCHANGED <<builderVars, cancelled, args, video_frame, ret, output_file>>

\* MovieDecoder::new(video_file_path, prefer_embedded_metadata)?
UnitOpen(t) ==
    /\ pc[t] = "open"
    /\ LET r == MovieDecoderNew(The(args[t].file), Config.prefer_embedded_metadata)
       IN  /\ Log(t, <<Call("MovieDecoder::new", 0, r.err = {})>>)
           /\ IF r.err # {}
              THEN UnitEnds(t, Err(The(r.err)), "join_frame")
              ELSE /\ decoder' = [decoder EXCEPT ![t] = r.ok]
                   /\ pc' = [pc EXCEPT ![t] = "decode"]
                   /\ UNCHANGED unit_ret
    /\ UNCHANGED <<builderVars, cancelled, args, video_frame, ret, output_file>>

\* the blocking unit without its priming decode
UnitDecodeLeftOut(t) ==
    /\ pc[t] = "decode"
    /\ pc' = [pc EXCEPT ![t] = "seek"]
    /\ UNCHANGED <<builderVars, cancelled, args, decoder, video_frame, unit_ret, ret, calls,
                   output_file>>

\* decoder.decode_video_frame()?
UnitDecode(t) ==
    /\ pc[t] = "decode"
    /\ LET r == decode_video_frame(The(decoder[t]))
       IN  /\ Log(t, <<Call("decode_video_frame", 0, r.err = {})>>)
           /\ IF r.err # {}
              THEN UnitEnds(t, Err(The(r.err)), "join_frame")
              ELSE /\ decoder' = [decoder EXCEPT ![t] = r.ok]
                   /\ pc' = [pc EXCEPT ![t] = "seek"]
                   /\ UNCHANGED unit_ret
    /\ UNCHANGED <<builderVars, cancelled, args, video_frame, ret, output_file>>

\* if !decoder.embedded_metadata_is_available() { decoder.seek(...)? }
UnitSeek(t) ==
    /\ pc[t] = "seek"
    /\ LET d      == The(decoder[t])
           asked  == <<Call("embedded_metadata_is_available", 0, TRUE)>>
           target == SeekTarget(get_video_duration(d), Config.seek_percentage)
           r      == seek(d, target)
       IN  IF ~NeedsSeek(d)
           THEN /\ Log(t, asked)
                /\ pc' = [pc EXCEPT ![t] = "scale"]
                /\ UNCHANGED <<decoder, unit_ret>>
           ELSE /\ Log(t, asked \o <<Call("get_video_duration", 0, TRUE),
                                      Call("seek", target, r.err = {})>>)
                /\ IF r.err # {}
                   THEN UnitEnds(t, Err(The(r.err)), "join_frame")
                   ELSE /\ decoder' = [decoder EXCEPT ![t] = r.ok]
                        /\ pc' = [pc EXCEPT ![t] = "scale"]
                        /\ UNCHANGED unit_ret
    /\ UNCHANGED <<builderVars, cancelled, args, video_frame, ret, output_file>>

\* the scale step handing the frame to the join while the unit still runs
UnitScalePublishesFrame(t) ==
    /\ pc[t] = "scale"
    /\ LET r == get_scaled_video_frame(The(decoder[t]), Config.size,
                                       Config.maintain_aspect_ratio, VideoFrameDefault)
       IN  /\ Log(t, <<FrameCall("get_scaled_video_frame", r.err = {}, r.ok)>>)
           /\ IF r.err # {}
              THEN /\ UnitEnds(t, Err(The(r.err)), "join_frame")
                   /\ UNCHANGED video_frame
              ELSE /\ video_frame' = [video_frame EXCEPT ![t] = r.ok]
                   /\ pc' = [pc EXCEPT ![t] = "filter"]
                   /\ unit_ret' = [unit_ret EXCEPT ![t] = {OkFrame(The(r.ok))}]
                   /\ UNCHANGED decoder
    /\ UNCHANGED <<builderVars, cancelled, args, ret, output_file>>

\* the scale step asking for the default size instead of the configured one
UnitScaleToDefaultSize(t) ==
    /\ pc[t] = "scale"
    /\ LET r == get_scaled_video_frame(The(decoder[t]), Default.size,
                                       Config.maintain_aspect_ratio, VideoFrameDefault)
       IN  /\ Log(t, <<FrameCall("get_scaled_video_frame", r.err = {}, r.ok)>>)
           /\ IF r.err # {}
              THEN /\ UnitEnds(t, Err(The(r.err)), "join_frame")
                   /\ UNCHANGED video_frame
              ELSE /\ video_frame' = [video_frame EXCEPT ![t] = r.ok]
                   /\ pc' = [pc EXCEPT ![t] = "filter"]
                   /\ UNCHANGED <<decoder, unit_ret>>
    /\ UNCHANGED <<builderVars, cancelled, args, ret, output_file>>

\* the scale step writing into one frame buffer that all invocations use
UnitScaleSharedFrame(t) ==
    /\ pc[t] = "scale"
    /\ LET r == get_scaled_video_frame(The(decoder[t]), Config.size,
                                       Config.maintain_aspect_ratio, VideoFrameDefault)
       IN  /\ Log(t, <<FrameCall("get_scaled_video_frame", r.err = {}, r.ok)>>)
           /\ IF r.err # {}
              THEN /\ UnitEnds(t, Err(The(r.err)), "join_frame")
                   /\ UNCHANGED video_frame
              ELSE /\ video_frame' = [u \in Tasks |-> r.ok]
                   /\ pc' = [pc EXCEPT ![t] = "filter"]
                   /\ UNCHANGED <<decoder, unit_ret>>
    /\ UNCHANGED <<builderVars, cancelled, args, ret, output_file>>

\* let mut video_frame = VideoFrame::default();
\* decoder.get_scaled_video_frame(Some(size), maintain_aspect_ratio, &mut video_frame)?
UnitScale(t) ==
    /\ pc[t] = "scale"
    /\ LET r == get_scaled_video_frame(The(decoder[t]), Config.size,
                                       Config.maintain_aspect_ratio, VideoFrameDefault)
       IN  /\ Log(t, <<FrameCall("get_scaled_video_frame", r.err = {}, r.ok)>>)
           /\ IF r.err # {}
              THEN /\ UnitEnds(t, Err(The(r.err)), "join_frame")
                   /\ UNCHANGED video_frame
              ELSE /\ video_frame' = [video_frame EXCEPT ![t] = r.ok]
                   /\ pc' = [pc EXCEPT ![t] = "filter"]
                   /\ UNCHANGED <<decoder, unit_ret>>
    /\ UNCHANGED <<builderVars, cancelled, args, ret, output_file>>

\* if with_film_strip { film_strip_filter(&mut video_frame); }  Ok(video_frame)
UnitFilter(t) ==
    /\ pc[t] = "filter"
    /\ LET f == The(video_frame[t])
       IN  IF TakesFilmStrip(Config.with_film_strip)
           THEN /\ Log(t, <<FrameCall("film_strip_filter", TRUE, {film_strip_filter(f)})>>)
                /\ UnitEnds(t, OkFrame(film_strip_filter(f)), "join_frame")
           ELSE /\ UNCHANGED calls
                /\ UnitEnds(t, OkFrame(f), "join_frame")
    /\ video_frame' = [video_frame EXCEPT ![t] = {}]
    /\ UNCHANGED <<builderVars, cancelled, args, ret, output_file>>

\* the join of the decode unit (`.await?`), and in process_to_bytes the `?` on the
\* frame and the match on the format, up to the spawn of the encode unit
JoinFrame(t) ==
    /\ pc[t] = "join_frame"
    /\ ~Dropped(t)
    /\ LET r == The(unit_ret[t])
       IN  IF FrameFailed(r)
           THEN /\ Returns(t, [Ok EXCEPT !.err = r.err])
                /\ UNCHANGED video_frame
           ELSE IF args[t].entry = "process_to_video_frame"
           THEN /\ Returns(t, r)
                /\ UNCHANGED video_frame
           ELSE /\ video_frame' = [video_frame EXCEPT ![t] = r.frame]
                /\ pc' = [pc EXCEPT ![t] =
                            IF The(args[t].format) = "Webp" THEN "encode_webp"
                                                            ELSE "encode_png"]
                /\ UNCHANGED ret
    /\ unit_ret' = [unit_ret EXCEPT ![t] = {}]
    /\ UNCHANGED <<builderVars, cancelled, args, decoder, calls, output_file>>

\* the blocking closure of process_to_webp_bytes; encode() panics when libwebp
\* refuses the picture, and the panic reaches the join as a JoinError
UnitEncodeWebp(t) ==
    /\ pc[t] = "encode_webp"
    /\ LET f == The(video_frame[t])
       IN  /\ Log(t, <<FrameCall("webp_encode", Encodable(f), {f})>>)
           /\ UnitEnds(t, IF Encodable(f)
                          THEN OkContainer(OutputContainerFrom(f, WebpBytes(f, Config.quality)))
                          ELSE Err(JoinError("webp_encode")),
                       "join_encode")
    /\ video_frame' = [video_frame EXCEPT ![t] = {}]
    /\ UNCHANGED <<builderVars, cancelled, args, ret, output_file>>

\* the PNG encoder given the configured quality as its compression level
UnitEncodePngAtQuality(t) ==
    /\ pc[t] = "encode_png"
    /\ LET f == The(video_frame[t])
       IN  /\ Log(t, <<FrameCall("png_encode", Encodable(f), {f})>>)
           /\ UnitEnds(t, IF Encodable(f)
                          THEN OkContainer(OutputContainerFrom(f,
                                  [PngBytes(f) EXCEPT !.lossy = {Config.quality}]))
                          ELSE Err(Error("EncodeFailed", "png_encode")),
                       "join_encode")
    /\ video_frame' = [video_frame EXCEPT ![t] = {}]
    /\ UNCHANGED <<builderVars, cancelled, args, ret, output_file>>

\* the blocking closure of process_to_png_bytes
UnitEncodePng(t) ==
    /\ pc[t] = "encode_png"
    /\ LET f == The(video_frame[t])
       IN  /\ Log(t, <<FrameCall("png_encode", Encodable(f), {f})>>)
           /\ UnitEnds(t, IF Encodable(f)
                          THEN OkContainer(OutputContainerFrom(f, PngBytes(f)))
                          ELSE Err(Error("EncodeFailed", "png_encode")),
                       "join_encode")
    /\ video_frame' = [video_frame EXCEPT ![t] = {}]
    /\ UNCHANGED <<builderVars, cancelled, args, ret, output_file>>

\* the continuation of process running even though its future was dropped
JoinEncodeDetached(t) ==
    /\ pc[t] = "join_encode"
    /\ LET r == The(unit_ret[t])
       IN  IF BytesFailed(r)
           THEN /\ Returns(t, [Ok EXCEPT !.err = r.err])
                /\ unit_ret' = [unit_ret EXCEPT ![t] = {}]
           ELSE IF args[t].entry = "process_to_bytes"
           THEN /\ Returns(t, r)
                /\ unit_ret' = [unit_ret EXCEPT ![t] = {}]
           ELSE /\ pc' = [pc EXCEPT ![t] = "write"]
                /\ UNCHANGED <<ret, unit_ret>>
    /\ UNCHANGED <<builderVars, cancelled, args, decoder, video_frame, calls, output_file>>

\* the join of the encode unit (`.await?`); process goes on to write `.bytes`
JoinEncode(t) ==
    /\ pc[t] = "join_encode"
    /\ ~Dropped(t)
    /\ LET r == The(unit_ret[t])
       IN  IF BytesFailed(r)
           THEN /\ Returns(t, [Ok EXCEPT !.err = r.err])
                /\ unit_ret' = [unit_ret EXCEPT ![t] = {}]
           ELSE IF args[t].entry = "process_to_bytes"
           THEN /\ Returns(t, r)
                /\ unit_ret' = [unit_ret EXCEPT ![t] = {}]
           ELSE /\ pc' = [pc EXCEPT ![t] = "write"]
                /\ UNCHANGED <<ret, unit_ret>>
    /\ UNCHANGED <<builderVars, cancelled, args, decoder, video_frame, calls, output_file>>

\* tokio::fs::write(output_thumbnail_path, bytes).await.map_err(Into::into)
\* the file system lets it through, refuses the file, or fails midway
Write(t) ==
    /\ pc[t] = "write"
    /\ LET bytes == The(The(unit_ret[t]).out).bytes
       IN  \E outcome \in {"written", "refused", "torn"} :
              /\ Log(t, <<Call("fs::write", 0, outcome = "written")>>)
              /\ output_file' = [output_file EXCEPT ![t] =
                    IF outcome = "refused" THEN output_file[t]
                    ELSE {[complete |-> outcome = "written", bytes |-> bytes]}]
              /\ Returns(t, IF outcome = "written" THEN Ok
                            ELSE Err(Error("IoFailed", "fs::write")))
    /\ unit_ret' = [unit_ret EXCEPT ![t] = {}]
    /\ UNCHANGED <<builderVars, cancelled, args, decoder, video_frame>>

(***************************************************************************)
(* The public operations as functions of their arguments: what one         *)
(* invocation calls and returns when nothing else runs.  `outcome` is what  *)
(* the file system does with the write.                                     *)
(***************************************************************************)
Run(cs, r, file) == [calls |-> cs, ret |-> r, file |-> file]

\* the body of the closure of process_to_video_frame, from the seek on
RunFromSeek(cfg, cs, d) ==
    LET asked  == cs \o <<Call("embedded_metadata_is_available", 0, TRUE)>>
        target == SeekTarget(get_video_duration(d), cfg.seek_percentage)
        s      == IF NeedsSeek(d) THEN seek(d, target) ELSE [ok |-> {d}, err |-> {}]
        sought == IF NeedsSeek(d)
                  THEN asked \o <<Call("get_video_duration", 0, TRUE),
                                  Call("seek", target, s.err = {})>>
                  ELSE asked
    IN  IF s.err # {} THEN Run(sought, Err(The(s.err)), {})
        ELSE
        LET g      == get_scaled_video_frame(The(s.ok), cfg.size,
                                             cfg.maintain_aspect_ratio, VideoFrameDefault)
            scaled == sought \o <<FrameCall("get_scaled_video_frame", g.err = {}, g.ok)>>
        IN  IF g.err # {} THEN Run(scaled, Err(The(g.err)), {})
            ELSE IF TakesFilmStrip(cfg.with_film_strip)
            THEN LET f == film_strip_filter(The(g.ok))
                 IN  Run(scaled \o <<FrameCall("film_strip_filter", TRUE, {f})>>,
                         OkFrame(f), {})
            ELSE Run(scaled, OkFrame(The(g.ok)), {})

RunToVideoFrame(cfg, video_file_path) ==
    LET o      == MovieDecoderNew(video_file_path, cfg.prefer_embedded_metadata)
        opened == <<Call("MovieDecoder::new", 0, o.err = {})>>
    IN  IF o.err # {} THEN Run(opened, Err(The(o.err)), {})
        ELSE
        LET p      == decode_video_frame(The(o.ok))
            primed == opened \o <<Call("decode_video_frame", 0, p.err = {})>>
        IN  IF p.err # {} THEN Run(primed, Err(The(p.err)), {})
            ELSE RunFromSeek(cfg, primed, The(p.ok))

RunToBytes(cfg, video_file_path, output_format) ==
    LET fr == RunToVideoFrame(cfg, video_file_path)
    IN  IF fr.ret.err # {} THEN fr
        ELSE
        LET f == The(fr.ret.frame)
        IN  IF output_format = "Webp"
            THEN Run(fr.calls \o <<FrameCall("webp_encode", Encodable(f), {f})>>,
                     IF Encodable(f)
                     THEN OkContainer(OutputContainerFrom(f, WebpBytes(f, cfg.quality)))
                     ELSE Err(JoinError("webp_encode")),
                     {})
            ELSE Run(fr.calls \o <<FrameCall("png_encode", Encodable(f), {f})>>,
                     IF Encodable(f)
                     THEN OkContainer(OutputContainerFrom(f, PngBytes(f)))
                     ELSE Err(Error("EncodeFailed", "png_encode")),
                     {})

RunProcess(cfg, video_file_path, output_thumbnail_path, outcome) ==
    LET inferred == InferFormat(output_thumbnail_path)
    IN  IF inferred.err # {} THEN Run(<<>>, Err(The(inferred.err)), {})
        ELSE
        LET b == RunToBytes(cfg, video_file_path, The(inferred.format))
        IN  IF b.ret.err # {} THEN b
            ELSE Run(b.calls \o <<Call("fs::write", 0, outcome = "written")>>,
                     IF outcome = "written" THEN Ok
                     ELSE Err(Error("IoFailed", "fs::write")),
                     IF outcome = "refused" THEN {}
                     ELSE {[complete |-> outcome = "written",
                            bytes |-> The(b.ret.out).bytes]})

\* the invocation with the arguments a
RunAlone(cfg, a, outcome) ==
    IF a.entry = "process" THEN RunProcess(cfg, The(a.file), a.path, outcome)
    ELSE IF a.entry = "process_to_bytes"
    THEN RunToBytes(cfg, The(a.file), The(a.format))
    ELSE RunToVideoFrame(cfg, The(a.file))

(***************************************************************************)
(* The helper functions of lib.rs.  Each builds its own Thumbnailer        *)
(* (new, size, quality, build) and enters one operation of it; the action   *)
(* runs the helper up to the first spawn of a blocking unit, or to its      *)
(* return when it returns before.                                           *)
(***************************************************************************)
\* ThumbnailerBuilder::new().size(size).quality(quality)? .build(): the chain is
\* made of temporaries, r is what the last setter returned for q
HelperBuilds(r, q, self) ==
    /\ builder' = {}
    /\ setter_err' = r.err
    /\ thumbnailer' = {build(b) : b \in r.ok}
    /\ last_call' = IF r.err = {} THEN BuilderCall("build", NaN, FALSE, r.ok)
                    ELSE BuilderCall("quality", q, FALSE, {self})

\* the `?` on quality(..) returns from the helper
HelperReturnsEarly(t, h, f, p, r) ==
    /\ args' = [args EXCEPT ![t] =
                   [entry |-> h.name, file |-> {f}, path |-> p, format |-> {},
                    helper |-> {h}]]
    /\ Returns(t, Err(The(r.err)))

\* to_thumbnail looking at the output path before it builds the Thumbnailer
to_thumbnail_inferring_first(t, video_file_path, output_thumbnail_path, n, q) ==
    /\ pc[t] = "idle"
    /\ builder # {}
    /\ thumbnailer = {}
    /\ LET h        == Helper("to_thumbnail", n, {q})
           r        == quality(size(new, n), q)
           inferred == InferFormat(output_thumbnail_path)
       IN  IF inferred.err # {}
           THEN /\ HelperBuilds(BuilderErr(The(inferred.err)), q, size(new, n))
                /\ HelperReturnsEarly(t, h, video_file_path, output_thumbnail_path,
                                      BuilderErr(The(inferred.err)))
           ELSE /\ HelperBuilds(r, q, size(new, n))
                /\ IF r.err # {}
                   THEN HelperReturnsEarly(t, h, video_file_path, output_thumbnail_path, r)
                   ELSE /\ args' = [args EXCEPT ![t] =
                                      [entry |-> "process", file |-> {video_file_path},
                                       path |-> output_thumbnail_path,
                                       format |-> inferred.format, helper |-> {h}]]
                        /\ pc' = [pc EXCEPT ![t] = "open"]
                        /\ UNCHANGED ret
    /\ UNCHANGED <<cancelled, decoder, video_frame, unit_ret, calls, output_file>>

\* to_thumbnail(video_file_path, output_thumbnail_path, size, quality)
to_thumbnail(t, video_file_path, output_thumbnail_path, n, q) ==
    /\ pc[t] = "idle"
    /\ builder # {}
    /\ thumbnailer = {}
    /\ LET h        == Helper("to_thumbnail", n, {q})
           r        == quality(size(new, n), q)
           inferred == InferFormat(output_thumbnail_path)
       IN  /\ HelperBuilds(r, q, size(new, n))
           /\ IF r.err # {}
              THEN HelperReturnsEarly(t, h, video_file_path, output_thumbnail_path, r)
              ELSE /\ args' = [args EXCEPT ![t] =
                                 [entry |-> "process", file |-> {video_file_path},
                                  path |-> output_thumbnail_path,
                                  format |-> inferred.format, helper |-> {h}]]
                   /\ IF inferred.err # {}
                      THEN Returns(t, Err(The(inferred.err)))
                      ELSE /\ pc' = [pc EXCEPT ![t] = "open"]
                           /\ UNCHANGED ret
    /\ UNCHANGED <<cancelled, decoder, video_frame, unit_ret, calls, output_file>>

\* the helper `name` entering process_to_bytes with `output_format` on the
\* Thumbnailer that r holds
HelperToBytes(t, h, video_file_path, output_format, r, q) ==
    /\ pc[t] = "idle"
    /\ builder # {}
    /\ thumbnailer = {}
    /\ HelperBuilds(r, q, size(new, h.size))
    /\ IF r.err # {}
       THEN HelperReturnsEarly(t, h, video_file_path, {}, r)
       ELSE /\ args' = [args EXCEPT ![t] =
                          [entry |-> "process_to_bytes", file |-> {video_file_path},
                           path |-> {}, format |-> {output_format}, helper |-> {h}]]
            /\ pc' = [pc EXCEPT ![t] = "open"]
            /\ UNCHANGED ret
    /\ UNCHANGED <<cancelled, decoder, video_frame, unit_ret, calls, output_file>>

\* to_thumbnail_bytes(video_file_path, output_format, size, quality)
to_thumbnail_bytes(t, video_file_path, output_format, n, q) ==
    HelperToBytes(t, Helper("to_thumbnail_bytes", n, {q}), video_file_path,
                  output_format, quality(size(new, n), q), q)

\* to_webp_bytes(video_file_path, size, quality)
to_webp_bytes(t, video_file_path, n, q) ==
    HelperToBytes(t, Helper("to_webp_bytes", n, {q}), video_file_path, "Webp",
                  quality(size(new, n), q), q)

\* to_png_bytes(video_file_path, size): no quality is set
to_png_bytes(t, video_file_path, n) ==
    HelperToBytes(t, Helper("to_png_bytes", n, {}), video_file_path, "Png",
                  BuilderOk(size(new, n)), NaN)

(***************************************************************************)
(* The specification: the builder is configured and built, then            *)
(* invocations run on the Thumbnailer, one at a time.                      *)
(***************************************************************************)
Next ==
    \/ CallMaintainAspectRatio
    \/ CallSize
    \/ CallWidthAndHeight
    \/ CallSeekPercentage
    \/ CallQuality
    \/ CallPreferEmbeddedMetadata
    \/ CallWithFilmStrip
    \/ CallBuild
    \/ \E t \in SeqTasks :
          \/ \E f \in VideoFiles, p \in OutputPaths : process(t, f, p)
          \/ \E f \in VideoFiles, fmt \in OutputFormats : process_to_bytes(t, f, fmt)
          \/ \E f \in VideoFiles : process_to_video_frame(t, f)
          \/ UnitOpen(t)
          \/ UnitDecode(t)
          \/ UnitSeek(t)
          \/ UnitScale(t)
          \/ UnitFilter(t)
          \/ JoinFrame(t)
          \/ UnitEncodeWebp(t)
          \/ UnitEncodePng(t)
          \/ JoinEncode(t)
          \/ Write(t)

Spec == Init /\ [][Next]_vars

(***************************************************************************)
(* Two invocations at once on one Thumbnailer (shared by reference, or a    *)
(* clone of it): the Thumbnailer is built already, and the steps of the     *)
(* two invocations interleave in every order.                               *)
(***************************************************************************)
\* the configurations of the shared Thumbnailer
SharedConfigs ==
    { new,
      with_film_strip(prefer_embedded_metadata(size(new, MaxEdge), FALSE), FALSE) }
\* the files the two invocations work on
SharedFiles ==
    {f \in VideoFiles : f.duration = MaxDuration /\ f.fault \in {"none", "scale"}}

\* the state right after build() on one of `configs`
Built(configs) ==
    /\ builder = {}
    /\ setter_err = {}
    /\ \E b \in configs :
          /\ thumbnailer = {build(b)}
          /\ last_call = BuilderCall("build", NaN, FALSE, {b})
    /\ pc = [t \in Tasks |-> "idle"]
    /\ args = [t \in Tasks |-> NoArgs]
    /\ decoder = [t \in Tasks |-> {}]
    /\ video_frame = [t \in Tasks |-> {}]
    /\ unit_ret = [t \in Tasks |-> {}]
    /\ ret = [t \in Tasks |-> {}]
    /\ calls = [t \in Tasks |-> <<>>]
    /\ output_file = [t \in Tasks |-> {}]
    /\ cancelled = {}

InitConcurrent == Built(SharedConfigs)

NextConcurrent ==
    \E t \in Tasks :
        \/ \E f \in SharedFiles, p \in OutputPaths : process(t, f, p)
        \/ \E f \in SharedFiles, fmt \in OutputFormats : process_to_bytes(t, f, fmt)
        \/ \E f \in SharedFiles : process_to_video_frame(t, f)
        \/ UnitOpen(t)
        \/ UnitDecode(t)
        \/ UnitSeek(t)
        \/ UnitScale(t)
        \/ UnitFilter(t)
        \/ JoinFrame(t)
        \/ UnitEncodeWebp(t)
        \/ UnitEncodePng(t)
        \/ JoinEncode(t)
        \/ Write(t)

SpecConcurrent == InitConcurrent /\ [][NextConcurrent]_vars

(***************************************************************************)
(* What the runtime can do to an invocation: a blocking unit ends in a     *)
(* panic wherever it stands, and the caller drops the future it awaits.     *)
(***************************************************************************)
DecodeUnitSteps == {"open", "decode", "seek", "scale", "filter"}
EncodeUnitSteps == {"encode_webp", "encode_png"}
UnitSteps == DecodeUnitSteps \cup EncodeUnitSteps
JoinSteps == {"join_frame", "join_encode"}

\* the closure of spawn_blocking panics: what it holds is dropped, and its
\* JoinHandle resolves to Err(JoinError)
UnitPanics(t) ==
    /\ pc[t] \in UnitSteps
    /\ Log(t, <<Call("unit_panic", 0, FALSE)>>)
    /\ UnitEnds(t, Err(JoinError("unit_panic")),
                IF pc[t] \in EncodeUnitSteps THEN "join_encode" ELSE "join_frame")
    /\ video_frame' = [video_frame EXCEPT ![t] = {}]
    /\ UNCHANGED <<builderVars, cancelled, args, ret, output_file>>

\* the future of the public operation is dropped while it awaits a JoinHandle;
\* the blocking unit is not stopped by that
Cancel(t) ==
    /\ pc[t] \in UnitSteps \cup JoinSteps
    /\ ~Dropped(t)
    /\ cancelled' = cancelled \cup {<<t, pc[t]>>}
    /\ UNCHANGED <<builderVars, pc, args, decoder, video_frame, unit_ret, ret, calls,
                   output_file>>

\* the configurations of the Thumbnailer the runtime events are tried on
RuntimeConfigs == SharedConfigs \cup {size(new, 0)}

InitRuntime == Built(RuntimeConfigs)

NextRuntime ==
    \E t \in SeqTasks :
        \/ \E f \in VideoFiles, p \in OutputPaths : process(t, f, p)
        \/ \E f \in VideoFiles, fmt \in OutputFormats : process_to_bytes(t, f, fmt)
        \/ \E f \in VideoFiles : process_to_video_frame(t, f)
        \/ UnitOpen(t)
        \/ UnitDecode(t)
        \/ UnitSeek(t)
        \/ UnitScale(t)
        \/ UnitFilter(t)
        \/ JoinFrame(t)
        \/ UnitEncodeWebp(t)
        \/ UnitEncodePng(t)
        \/ JoinEncode(t)
        \/ Write(t)
        \/ UnitPanics(t)
        \/ Cancel(t)

(***************************************************************************)
(* Invocations through the helper functions of lib.rs.                      *)
(***************************************************************************)
NextHelpers ==
    \E t \in SeqTasks :
        \/ \E f \in VideoFiles, p \in OutputPaths, n \in SizeArgs, q \in QualityArgs :
              to_thumbnail(t, f, p, n, q)
        \/ \E f \in VideoFiles, fmt \in OutputFormats, n \in SizeArgs, q \in QualityArgs :
              to_thumbnail_bytes(t, f, fmt, n, q)
        \/ \E f \in VideoFiles, n \in SizeArgs, q \in QualityArgs :
              to_webp_bytes(t, f, n, q)
        \/ \E f \in VideoFiles, n \in SizeArgs : to_png_bytes(t, f, n)
        \/ UnitOpen(t)
        \/ UnitDecode(t)
        \/ UnitSeek(t)
        \/ UnitScale(t)
        \/ UnitFilter(t)
        \/ JoinFrame(t)
        \/ UnitEncodeWebp(t)
        \/ UnitEncodePng(t)
        \/ JoinEncode(t)
        \/ Write(t)

SpecHelpers == Init /\ [][NextHelpers]_vars

\* the runtime wakes the awaiting task once the JoinHandle is ready
SpecRuntime ==
    /\ InitRuntime
    /\ [][NextRuntime]_vars
    /\ \A t \in SeqTasks : WF_vars(JoinFrame(t)) /\ WF_vars(JoinEncode(t))

(***************************************************************************)
(* Vocabulary of the properties.                                           *)
(***************************************************************************)
Started(t) == args[t].entry # "none"
InputFile(t) == The(args[t].file)
Indices(t) == 1..Len(calls[t])
At(t, op) == {i \in Indices(t) : calls[t][i].op = op}
HasCall(t, op) == At(t, op) # {}
Encoders == {"webp_encode", "png_encode"}
EncoderCalls(t) == {i \in Indices(t) : calls[t][i].op \in Encoders}
FailedCalls(t) == {i \in Indices(t) : ~calls[t][i].ok}
\* the results invocation t holds: the one its unit handed over, the one it returned
Results(t) == unit_ret[t] \cup ret[t]

\* 0 <= v <= hi for an f32 v and an integer hi, in exact arithmetic
Within(v, hi) == ~v.nan /\ 0 <= v.num /\ v.num <= hi * Pow2(v.exp)

Lowered(e) == [i \in 1..Len(e) |-> ToAsciiLowercase(e[i])]
Unrecognized(path) ==
    \A e \in path : Lowered(e) \notin {<<"w", "e", "b", "p">>, <<"p", "n", "g">>}

\* the position of a collaborator call in the pipeline
Rank(op) ==
    CASE op = "MovieDecoder::new"              -> 1
      [] op = "decode_video_frame"             -> 2
      [] op = "embedded_metadata_is_available" -> 3
      [] op = "get_video_duration"             -> 4
      [] op = "seek"                           -> 5
      [] op = "get_scaled_video_frame"         -> 6
      [] op = "film_strip_filter"              -> 7
      [] op \in Encoders                       -> 8
      [] op = "fs::write"                      -> 9

\* the error each collaborator call raises when it fails
ErrorKindOf(op) ==
    CASE op = "MovieDecoder::new"      -> "OpenFailed"
      [] op = "decode_video_frame"     -> "DecodeFailed"
      [] op = "seek"                   -> "SeekFailed"
      [] op = "get_scaled_video_frame" -> "DecodeFailed"
      [] op = "png_encode"             -> "EncodeFailed"
      [] op = "webp_encode"            -> "JoinError"
      [] op = "fs::write"              -> "IoFailed"
      [] OTHER                         -> "none"

(***************************************************************************)
(* C1: process called with an output path whose extension is not webp or   *)
(* png (in any case), or that has no extension, has returned                *)
(* UnsupportedExtension without any work: no decoder was opened, no frame   *)
(* decoded or held, no encoder called, no unit run, nothing written.        *)
(***************************************************************************)
C1_UnsupportedExtensionBeforeAnyWork ==
    \A t \in Tasks :
        (args[t].entry = "process" /\ Unrecognized(args[t].path)) =>
            /\ pc[t] = "done"
            /\ ret[t] # {}
            /\ \A r \in ret[t] : \E e \in r.err : e.kind = "UnsupportedExtension"
            /\ calls[t] = <<>>
            /\ decoder[t] = {}
            /\ video_frame[t] = {}
            /\ unit_ret[t] = {}
            /\ output_file[t] = {}

C1_Witness ==
    \E t \in Tasks :
        /\ args[t].entry = "process"
        /\ args[t].path = {<<"g", "i", "f">>}
        /\ pc[t] = "done"
        /\ \E r \in ret[t] : r.err # {}

(***************************************************************************)
(* C2: the write to the output path is issued only by process and only     *)
(* after open, priming decode, the seek when taken, scale, the filter when  *)
(* taken and the encoder all succeeded; once any of those calls failed, no  *)
(* write is pending, none was issued and the output path holds nothing.     *)
(***************************************************************************)
C2_WriteOnlyAfterFullPipeline ==
    \A t \in Tasks :
        LET before == {i \in Indices(t) : calls[t][i].op # "fs::write"}
        IN  /\ (pc[t] = "write" \/ HasCall(t, "fs::write") \/ output_file[t] # {}) =>
                  /\ args[t].entry = "process"
                  /\ \A i \in before : calls[t][i].ok
                  /\ HasCall(t, "MovieDecoder::new")
                  /\ HasCall(t, "decode_video_frame")
                  /\ HasCall(t, "get_scaled_video_frame")
                  /\ EncoderCalls(t) # {}
                  /\ \A w \in At(t, "fs::write") : \A i \in before : i < w
            /\ (\E i \in before : ~calls[t][i].ok) =>
                  /\ pc[t] # "write"
                  /\ ~HasCall(t, "fs::write")
                  /\ output_file[t] = {}

C2_Witness ==
    \E t \in Tasks :
        /\ pc[t] = "done"
        /\ HasCall(t, "seek")
        /\ HasCall(t, "film_strip_filter")
        /\ \E o \in output_file[t] : o.complete
        /\ ret[t] = {Ok}

C4_SeekTargetWithinDuration ==
    \A t \in Tasks : \A i \in At(t, "seek") :
        LET target == calls[t][i].arg
            secs   == InputFile(t).duration
        IN  /\ 0 <= target
            /\ target <= secs
            /\ Config.seek_percentage = F32(0, 0) => target = 0
            /\ Config.seek_percentage = F32(1, 0) => target = secs

(***************************************************************************)
(* C5: right after a call of seek_percentage(v) or quality(v): if v lies   *)
(* in [0.0, 1.0] resp. [0.0, 100.0], bounds included, the call returned the *)
(* builder with v stored in that field; otherwise it returned               *)
(* InvalidSeekPercentage(v) resp. InvalidQuality(v), v is in no builder the *)
(* caller holds, and the builder the caller kept (the one it cloned for the *)
(* call) is what it was; a builder moved into the rejected call is dropped. *)
(***************************************************************************)
C5_SettersValidateRange ==
    LET v      == last_call.value
        before == last_call.self
        kept   == IF last_call.cloned THEN before ELSE {}
    IN  /\ last_call.op = "seek_percentage" =>
              IF Within(v, 1)
              THEN /\ setter_err = {}
                   /\ builder = {[The(before) EXCEPT !.seek_percentage = v]}
              ELSE /\ setter_err = {InvalidSeekPercentage(v)}
                   /\ builder = kept
                   /\ \A b \in builder : b.seek_percentage # v
        /\ last_call.op = "quality" =>
              IF Within(v, 100)
              THEN /\ setter_err = {}
                   /\ builder = {[The(before) EXCEPT !.quality = v]}
              ELSE /\ setter_err = {InvalidQuality(v)}
                   /\ builder = kept
                   /\ \A b \in builder : b.quality # v

C5_Witness ==
    /\ last_call.op = "seek_percentage"
    /\ last_call.value = NaN
    /\ last_call.cloned
    /\ setter_err # {}
    /\ \E b \in builder : b.quality = F32(100, 0) /\ b.seek_percentage = F32(1, 0)

(***************************************************************************)
(* C6: every builder and every built Thumbnailer holds seek_percentage in  *)
(* [0.0, 1.0] and quality in [0.0, 100.0], whatever setter calls came       *)
(* before, and no invocation ever holds or returns InvalidSeekPercentage    *)
(* or InvalidQuality.                                                       *)
(***************************************************************************)
C6_BuiltConfigurationInRange ==
    /\ \A b \in builder \cup {th.builder : th \in thumbnailer} :
          /\ Within(b.seek_percentage, 1)
          /\ Within(b.quality, 100)
    /\ \A t \in Tasks : \A r \in Results(t) : \A e \in r.err :
          e.kind \notin {"InvalidSeekPercentage", "InvalidQuality"}

C6_Witness ==
    /\ \E th \in thumbnailer :
          /\ th.builder.quality = F32(100, 0)
          /\ th.builder.seek_percentage = F32(0, 0)
    /\ \E t \in Tasks : pc[t] = "done" /\ \E r \in ret[t] : r.out # {}

(***************************************************************************)
(* C7: the collaborator calls of one invocation come in pipeline order,    *)
(* each at most once: the decoder is opened first, the priming decode is    *)
(* second and precedes the embedded-metadata and the duration query, the    *)
(* seek follows both queries and precedes the scale request, the filter     *)
(* follows the scale, the encoder follows scale and filter, the write is    *)
(* last; and a call is issued only when the one before it has returned Ok.  *)
(***************************************************************************)
C7_StepsStrictlySequential ==
    \A t \in Tasks :
        LET c == calls[t]
        IN  /\ \A i, j \in Indices(t) : i < j => Rank(c[i].op) < Rank(c[j].op)
            /\ \A i \in Indices(t) : i < Len(c) => c[i].ok
            /\ c # <<>> => c[1].op = "MovieDecoder::new"
            /\ \A i \in Indices(t) : Rank(c[i].op) > 2 => c[2].op = "decode_video_frame"
            /\ \A i \in At(t, "seek") :
                  /\ i > 2
                  /\ c[i - 2].op = "embedded_metadata_is_available"
                  /\ c[i - 1].op = "get_video_duration"
            /\ \A i \in Indices(t) :
                  Rank(c[i].op) > 6 => \E j \in At(t, "get_scaled_video_frame") : j < i
            /\ \A i \in At(t, "fs::write") : \E j \in EncoderCalls(t) : j < i

C7_Witness ==
    \E t \in Tasks :
        /\ pc[t] = "done"
        /\ [i \in Indices(t) |-> calls[t][i].op] =
              << "MovieDecoder::new", "decode_video_frame",
                 "embedded_metadata_is_available", "get_video_duration", "seek",
                 "get_scaled_video_frame", "film_strip_filter", "png_encode",
                 "fs::write" >>

(***************************************************************************)
(* C8: a collaborator call that failed is the last call of its invocation: *)
(* no later step is invoked and no step is invoked twice (no retry, no      *)
(* fallback after a failed seek); the invocation then only waits to hand    *)
(* the error on, and what it returns is the error of that failed call.      *)
(***************************************************************************)
C8_FailFastNoRetry ==
    \A t \in Tasks :
        LET c == calls[t]
        IN  /\ \A i, j \in Indices(t) : c[i].op = c[j].op => i = j
            /\ \A i \in FailedCalls(t) :
                  /\ i = Len(c)
                  /\ pc[t] \in {"join_frame", "join_encode", "done"}
                  /\ \A r \in Results(t) :
                        r = Err(Error(ErrorKindOf(c[i].op), c[i].op))
                  /\ pc[t] = "done" => ret[t] # {}

C8_Witness ==
    \E t \in Tasks :
        /\ pc[t] = "done"
        /\ args[t].entry = "process"
        /\ \E i \in FailedCalls(t) : calls[t][i].op = "seek"
        /\ ret[t] = {Err(Error("SeekFailed", "seek"))}

(***************************************************************************)
(* C9: the film strip filter is called at most once, only with             *)
(* with_film_strip set, after a successful scale and before the encoder;    *)
(* once the unit is past its filter step after a successful scale, the      *)
(* filter was called exactly when with_film_strip is set; and without it    *)
(* the frame the encoder takes is the frame the scale step produced.        *)
(***************************************************************************)
C9_FilmStripOnlyWhenConfigured ==
    \A t \in Tasks :
        LET c      == calls[t]
            scaled == {i \in At(t, "get_scaled_video_frame") : c[i].ok}
            filter == At(t, "film_strip_filter")
        IN  /\ Cardinality(filter) <= 1
            /\ \A i \in filter :
                  /\ Config.with_film_strip
                  /\ \E j \in scaled : j < i
                  /\ \A k \in EncoderCalls(t) : i < k
            /\ (scaled # {} /\ pc[t] # "filter") =>
                  (filter # {} <=> Config.with_film_strip)
            /\ \A k \in EncoderCalls(t) :
                  ~Config.with_film_strip =>
                      \E j \in scaled : c[k].frame = c[j].frame /\ c[k].frame # {}

C9_Witness ==
    \E t \in Tasks :
        /\ pc[t] = "done"
        /\ \E k \in EncoderCalls(t) : calls[t][k].ok
        /\ ~Config.with_film_strip

(***************************************************************************)
(* C10: the OutputContainer of a successful process_to_bytes, from either  *)
(* encoder, has the width, height, source_width and source_height of the    *)
(* frame the encoder took, and its source dimensions are those of the       *)
(* decoded frame before scaling (the input's), with or without film strip.  *)
(***************************************************************************)
C10_ContainerCopiesFrameDimensions ==
    \A t \in Tasks : \A r \in Results(t) : \A o \in r.out :
        /\ \E k \in EncoderCalls(t) : \E f \in calls[t][k].frame :
              /\ o.width = f.width
              /\ o.height = f.height
              /\ o.source_width = f.source_width
              /\ o.source_height = f.source_height
              /\ o.bytes.data = f.data
        /\ o.source_width = InputFile(t).width
        /\ o.source_height = InputFile(t).height

C10_Witness ==
    \E t \in Tasks : \E r \in ret[t] : \E o \in r.out :
        /\ args[t].entry = "process_to_bytes"
        /\ o.width # o.source_width
        /\ o.height # o.source_height
        /\ o.bytes.format = "webp"
        /\ HasCall(t, "film_strip_filter")

(***************************************************************************)
(* C11: process infers the format from the extension of the output path    *)
(* without regard to case: every spelling of webp selects WebP and only     *)
(* the WebP encoder is called, every spelling of png selects PNG and only   *)
(* the PNG encoder is called, any other extension has returned              *)
(* UnsupportedExtension carrying that extension as spelled, no extension    *)
(* has returned UnsupportedExtension carrying "<empty>"; and in every run   *)
(* the encoder called is the one of the selected format.                    *)
(***************************************************************************)
C11_FormatInferredFromExtension ==
    \A t \in Tasks :
        LET path     == args[t].path
            encoders == {calls[t][k].op : k \in EncoderCalls(t)}
            refused  == {e \in UNION {r.err : r \in ret[t]} :
                            e.kind = "UnsupportedExtension"}
        IN  /\ args[t].entry = "process" =>
                  /\ (\E e \in path : Lowered(e) = <<"w", "e", "b", "p">>) =>
                        args[t].format = {"Webp"} /\ refused = {}
                  /\ (\E e \in path : Lowered(e) = <<"p", "n", "g">>) =>
                        args[t].format = {"Png"} /\ refused = {}
                  /\ \A e \in path : Unrecognized(path) =>
                        /\ args[t].format = {}
                        /\ ret[t] = {Err(UnsupportedExtension(e))}
                  /\ path = {} =>
                        /\ args[t].format = {}
                        /\ ret[t] = {Err(UnsupportedExtension(EMPTY_SENTINEL))}
            /\ args[t].entry # "process" => refused = {}
            /\ args[t].format = {"Webp"} => encoders \subseteq {"webp_encode"}
            /\ args[t].format = {"Png"} => encoders \subseteq {"png_encode"}
            /\ args[t].format = {} => encoders = {}
            /\ (pc[t] \in {"join_encode", "write"} \/ HasCall(t, "fs::write")) =>
                  encoders # {}

C11_Witness ==
    \E t \in Tasks :
        /\ args[t].entry = "process"
        /\ args[t].path = {<<"P", "N", "G">>}
        /\ pc[t] = "done"
        /\ \E k \in EncoderCalls(t) : calls[t][k].op = "png_encode" /\ calls[t][k].ok
        /\ ret[t] = {Ok}

\* what the file system did with the write of t, read from the output path
Outcome(t) ==
    IF output_file[t] = {} THEN "refused"
    ELSE IF The(output_file[t]).complete THEN "written" ELSE "torn"

(***************************************************************************)
(* C12: with two invocations running at once on one Thumbnailer, each      *)
(* invocation's decoder is a session on its own input file, the frame it    *)
(* holds is one its own steps produced, no step changes the Thumbnailer,    *)
(* and whatever the interleaving an invocation that has returned returned   *)
(* (and wrote) what it returns when it runs alone.                          *)
(***************************************************************************)
C12_InvocationsShareNoState ==
    /\ [](\A t \in Tasks :
             /\ \A d \in decoder[t] : Started(t) /\ d.file = InputFile(t)
             /\ \A f \in video_frame[t] : \E i \in Indices(t) : f \in calls[t][i].frame
             /\ pc[t] = "done" =>
                   LET alone == RunAlone(Config, args[t], Outcome(t))
                   IN  /\ ret[t] = {alone.ret}
                       /\ output_file[t] = alone.file)
    /\ [][thumbnailer' = thumbnailer]_vars

C12_Witness ==
    \E t, u \in Tasks :
        /\ pc[t] = "scale"
        /\ decoder[t] # {}
        /\ pc[u] = "encode_webp"
        /\ video_frame[u] # {}
        /\ InputFile(t).cover # InputFile(u).cover

\* the failed calls of t that are a panic of its blocking unit
Panics(t) == {i \in FailedCalls(t) : calls[t][i].op \in {"unit_panic", "webp_encode"}}

(***************************************************************************)
(* C13: once a blocking unit (decode or encode) has ended in a panic, the  *)
(* invocation calls nothing further, only waits at the join of that unit or *)
(* has returned, holds and returns nothing but the JoinError as a           *)
(* ThumbnailerError, has no write pending or issued and no output file;     *)
(* and unless its caller drops it, it does return.                          *)
(***************************************************************************)
C13_AbnormalUnitEndIsPipelineError ==
    /\ [](\A t \in Tasks : \A i \in Panics(t) :
             /\ i = Len(calls[t])
             /\ pc[t] \in JoinSteps \cup {"done"}
             /\ \A r \in Results(t) : r = Err(JoinError(calls[t][i].op))
             /\ pc[t] = "done" => ret[t] # {}
             /\ pc[t] \in JoinSteps => unit_ret[t] # {}
             /\ output_file[t] = {}
             /\ decoder[t] = {}
             /\ video_frame[t] = {})
    /\ \A t \in Tasks : (Panics(t) # {}) ~> (pc[t] = "done" \/ Dropped(t))

C13_Witness ==
    \E t \in Tasks :
        /\ pc[t] = "done"
        /\ args[t].entry = "process"
        /\ \E i \in Panics(t) :
              /\ calls[t][i].op = "unit_panic"
              /\ i > 1
              /\ calls[t][i - 1].op = "get_scaled_video_frame"
        /\ ret[t] = {Err(JoinError("unit_panic"))}

\* the qualities a Thumbnailer can be built with
AcceptedQualities == {q \in QualityArgs : QualityInRange(q)} \cup {Default.quality}

(***************************************************************************)
(* C14: an invocation that has finished with format PNG issued the calls,  *)
(* returned the value and wrote the file that a Thumbnailer differing only  *)
(* in quality issues, returns and writes on the same arguments, and its     *)
(* bytes carry no quality; with format WebP the calls are the same for      *)
(* every quality, and the returned container differs from that of another   *)
(* quality in nothing but the quality its bytes were encoded at.            *)
(***************************************************************************)
C14_QualityIgnoredOnPng ==
    \A t \in Tasks : \A q \in AcceptedQualities :
        (pc[t] = "done" /\ args[t].format # {}) =>
            LET other == RunAlone([Config EXCEPT !.quality = q], args[t], Outcome(t))
            IN  /\ calls[t] = other.calls
                /\ args[t].format = {"Png"} =>
                      /\ ret[t] = {other.ret}
                      /\ output_file[t] = other.file
                      /\ \A r \in ret[t] : \A o \in r.out : o.bytes.lossy = {}
                /\ args[t].format = {"Webp"} =>
                      \A r \in ret[t] :
                          /\ r.err = other.ret.err
                          /\ \A o \in r.out :
                                /\ o.bytes.lossy = {Config.quality}
                                /\ other.ret.out = {[o EXCEPT !.bytes.lossy = {q}]}

C14_Witness ==
    \E t \in Tasks :
        /\ pc[t] = "done"
        /\ args[t].entry = "process_to_bytes"
        /\ args[t].format = {"Png"}
        /\ \E r \in ret[t] : \E o \in r.out : o.bytes.format = "png"
        /\ Config.quality = F32(0, 0)

(***************************************************************************)
(* C15: two invocations of one operation on the same input file, with the  *)
(* same configuration and the same format or output path, whichever ran     *)
(* first and however they overlapped, have issued the same calls and        *)
(* returned the same value once both are done, and have written the same    *)
(* bytes when the file system treated both writes alike; and the calls of   *)
(* every finished invocation are those of a run from scratch, the decoder   *)
(* opened anew.                                                             *)
(***************************************************************************)
C15_ProcessingIsDeterministic ==
    /\ \A t, u \in Tasks :
          (t # u /\ pc[t] = "done" /\ pc[u] = "done" /\ args[t] = args[u]) =>
              LET upto(v) == {i \in Indices(v) : calls[v][i].op # "fs::write"}
              IN  /\ [i \in upto(t) |-> calls[t][i]] = [i \in upto(u) |-> calls[u][i]]
                  /\ \A r \in ret[t], q \in ret[u] :
                        r.out = q.out /\ r.frame = q.frame
                  /\ {o.bytes : o \in output_file[t]} \cup {o.bytes : o \in output_file[u]}
                        \in {{}} \cup {{o.bytes} : o \in output_file[t] \cup output_file[u]}
                  /\ Outcome(t) = Outcome(u) =>
                        /\ calls[t] = calls[u]
                        /\ ret[t] = ret[u]
                        /\ output_file[t] = output_file[u]
    /\ \A t \in Tasks :
          pc[t] = "done" =>
              /\ calls[t] = RunAlone(Config, args[t], Outcome(t)).calls
              /\ calls[t] # <<>> => calls[t][1].op = "MovieDecoder::new"

C15_Witness ==
    \E t, u \in Tasks :
        /\ t # u
        /\ pc[t] = "done"
        /\ pc[u] = "done"
        /\ args[t] = args[u]
        /\ args[t].entry = "process"
        /\ \E o \in output_file[t] : o.complete /\ o.bytes.format = "webp"
        /\ output_file[t] = output_file[u]

\* the helper functions that take a quality
QualityHelpers == {"to_thumbnail", "to_thumbnail_bytes", "to_webp_bytes"}

(***************************************************************************)
(* C16: a call of to_thumbnail, to_thumbnail_bytes or to_webp_bytes with a *)
(* quality outside [0.0, 100.0] (NaN included) has returned InvalidQuality  *)
(* of that quality, whatever the input and the output path (an unsupported  *)
(* extension or none included), without building a Thumbnailer, opening a   *)
(* decoder, calling an encoder or any other collaborator, or writing a      *)
(* file.                                                                    *)
(***************************************************************************)
C16_HelpersRejectQualityBeforeIO ==
    \A t \in Tasks : \A h \in args[t].helper : \A q \in h.quality :
        (h.name \in QualityHelpers /\ ~Within(q, 100)) =>
            /\ pc[t] = "done"
            /\ ret[t] = {Err(InvalidQuality(q))}
            /\ thumbnailer = {}
            /\ calls[t] = <<>>
            /\ decoder[t] = {}
            /\ video_frame[t] = {}
            /\ unit_ret[t] = {}
            /\ output_file[t] = {}

C16_Witness ==
    \E t \in Tasks : \E h \in args[t].helper :
        /\ h.name = "to_thumbnail"
        /\ h.quality = {F32(201, 1)}
        /\ args[t].path = {<<"g", "i", "f">>}
        /\ pc[t] = "done"
        /\ \E r \in ret[t] : \E e \in r.err : e.kind = "InvalidQuality"

\* the source dimensions of d (a frame or a container) are at least its own
SourceAtLeastOutput(d) == d.source_width >= d.width /\ d.source_height >= d.height
\* the configured target is no larger than the source of d on either edge
TargetFits(d) ==
    Config.size.width <= d.source_width /\ Config.size.height <= d.source_height

(***************************************************************************)
(* C17 as stated: every frame the pipeline returns or holds and every      *)
(* OutputContainer has source_width >= width and source_height >= height,   *)
(* for every source size and every configured target size.                  *)
(***************************************************************************)
C17_SourceAtLeastOutputAlways ==
    \A t \in Tasks :
        /\ \A f \in video_frame[t] : SourceAtLeastOutput(f)
        /\ \A r \in Results(t) :
              /\ \A f \in r.frame : SourceAtLeastOutput(f)
              /\ \A o \in r.out : SourceAtLeastOutput(o)

(***************************************************************************)
(* C17 amended: every frame the pipeline returns or holds and every        *)
(* OutputContainer carries the dimensions of the decoded frame before       *)
(* scaling as its source dimensions, and has source_width >= width and      *)
(* source_height >= height whenever the configured target size is no larger *)
(* than the source on either edge.                                          *)
(***************************************************************************)
C17_SourceAtLeastOutputWhenTargetFits ==
    \A t \in Tasks :
        LET held     == video_frame[t] \cup UNION {r.frame : r \in Results(t)}
            returned == UNION {r.out : r \in Results(t)}
            holds(d) ==
                /\ d.source_width = InputFile(t).width
                /\ d.source_height = InputFile(t).height
                /\ TargetFits(d) => SourceAtLeastOutput(d)
        IN  /\ \A f \in held : holds(f)
            /\ \A o \in returned : holds(o)

C17_Witness ==
    \E t \in Tasks : \E r \in ret[t] : \E o \in r.out :
        /\ pc[t] = "done"
        /\ Config.size = Size(MaxEdge)
        /\ o.width = MaxEdge
        /\ o.width < o.source_width
        /\ o.height < o.source_height

(***************************************************************************)
(* C18: the encode unit is submitted only by process and process_to_bytes  *)
(* and only once the decode unit has ended with Ok: open, priming decode,   *)
(* seek when taken, scale and the filter when configured all returned, the  *)
(* decoder is dropped, and the frame the encode unit holds is the one that  *)
(* unit produced last; while a unit runs the caller holds no result of it,  *)
(* at a join the finished unit's result waits and nothing is returned yet,  *)
(* a returned value comes with the invocation done, a returned container    *)
(* with a finished encoder and a returned frame with a finished scale.      *)
(***************************************************************************)
C18_UnitsRunInSequence ==
    \A t \in Tasks :
        LET c        == calls[t]
            scaled   == {i \in At(t, "get_scaled_video_frame") : c[i].ok}
            frames   == {i \in Indices(t) : c[i].frame # {} /\ c[i].op \notin Encoders}
            encoding == \/ pc[t] \in EncodeUnitSteps \cup {"join_encode", "write"}
                        \/ EncoderCalls(t) # {}
                        \/ HasCall(t, "fs::write")
        IN  /\ encoding =>
                  /\ args[t].entry \in {"process", "process_to_bytes"}
                  /\ scaled # {}
                  /\ \A j \in scaled, k \in EncoderCalls(t) : j < k
                  /\ \A i \in Indices(t) :
                        c[i].op \notin Encoders \cup {"fs::write", "unit_panic"} => c[i].ok
                  /\ Config.with_film_strip => HasCall(t, "film_strip_filter")
                  /\ decoder[t] = {}
            /\ pc[t] \in EncodeUnitSteps =>
                  \E i \in frames :
                      /\ video_frame[t] = c[i].frame
                      /\ \A j \in frames : j <= i
            /\ pc[t] \in UnitSteps \cup {"idle"} => ret[t] = {} /\ unit_ret[t] = {}
            /\ pc[t] \in JoinSteps => ret[t] = {} /\ unit_ret[t] # {}
            /\ ret[t] # {} => pc[t] = "done"
            /\ \A r \in ret[t] :
                  /\ r.out # {} => \E k \in EncoderCalls(t) : c[k].ok
                  /\ r.frame # {} =>
                        scaled # {} /\ args[t].entry = "process_to_video_frame"

C18_Witness ==
    \E t \in Tasks :
        /\ pc[t] = "encode_png"
        /\ args[t].entry = "process_to_bytes"
        /\ HasCall(t, "seek")
        /\ HasCall(t, "film_strip_filter")
        /\ video_frame[t] # {}
        /\ ret[t] = {}

\* the fields of ThumbnailerBuilder, and the one field a setter writes
Fields ==
    { "maintain_aspect_ratio", "size", "seek_percentage", "quality",
      "prefer_embedded_metadata", "with_film_strip" }
Setters == Fields \cup {"width_and_height"}
FieldOf(op) == IF op = "width_and_height" THEN "size" ELSE op

(***************************************************************************)
(* C19: a fresh builder holds size = edge 128, maintain_aspect_ratio =     *)
(* true, seek_percentage = 0.1, quality = 80.0, prefer_embedded_metadata =  *)
(* true, with_film_strip = true; right after a setter call every field but  *)
(* the one the setter names is what it was before the call (so a field      *)
(* changes only through its own setter); size leaves a single edge and      *)
(* width_and_height a pair in the size field, whatever was there before;    *)
(* and the Thumbnailer build() returns holds every field of the builder it  *)
(* was called on.                                                           *)
(***************************************************************************)
C19_SettersWriteOnlyTheirField ==
    /\ last_call.op = "new" =>
          builder = {[ maintain_aspect_ratio    |-> TRUE,
                       size                     |-> [kind |-> "Size", width |-> 128,
                                                     height |-> 128],
                       seek_percentage          |-> F32(13421773, 27),
                       quality                  |-> F32(80, 0),
                       prefer_embedded_metadata |-> TRUE,
                       with_film_strip          |-> TRUE ]}
    /\ last_call.op \in Setters =>
          /\ \A b \in builder : \A s \in last_call.self :
                \A f \in Fields \ {FieldOf(last_call.op)} : b[f] = s[f]
          /\ setter_err = {} => builder # {}
    /\ last_call.op = "size" =>
          \A b \in builder : b.size.kind = "Size" /\ b.size.width = b.size.height
    /\ last_call.op = "width_and_height" =>
          \A b \in builder : b.size.kind = "Dimensions"
    /\ last_call.op = "build" =>
          /\ thumbnailer = {[builder |-> s] : s \in last_call.self}
          /\ thumbnailer # {}

C19_Witness ==
    /\ last_call.op = "width_and_height"
    /\ \E s \in last_call.self :
          /\ s.size = Size(0)
          /\ ~s.with_film_strip
          /\ s.quality = F32(100, 0)
    /\ \E b \in builder :
          /\ b.size = Dimensions(MaxEdge, 1)
          /\ ~b.with_film_strip
          /\ b.quality = F32(100, 0)
          /\ b.seek_percentage = F32(13421773, 27)

(***************************************************************************)
(* C20: an invocation whose caller dropped it while its decode unit or its *)
(* encode unit was running (or waiting at the join) never returns, has no   *)
(* write pending or issued and leaves no output file, while its unit still  *)
(* goes on to its end; after a drop during the decode unit no encode unit   *)
(* is started.                                                              *)
(***************************************************************************)
C20_NoWriteAfterCancellation ==
    \A c \in cancelled :
        LET t == c[1]
        IN  /\ c[2] \in UnitSteps \cup JoinSteps
            /\ pc[t] \in UnitSteps \cup JoinSteps
            /\ ret[t] = {}
            /\ ~HasCall(t, "fs::write")
            /\ output_file[t] = {}
            /\ c[2] \in DecodeUnitSteps \cup {"join_frame"} =>
                  /\ pc[t] \in DecodeUnitSteps \cup {"join_frame"}
                  /\ EncoderCalls(t) = {}

C20_Witness ==
    \E c \in cancelled :
        /\ c[2] = "encode_webp"
        /\ args[c[1]].entry = "process"
        /\ pc[c[1]] = "join_encode"
        /\ \E r \in unit_ret[c[1]] : r.out # {}

====
